---- MODULE Spec2Model ----
(***************************************************************************)
(* Model of stock_alert.py: the trade evaluator (check_trades), the        *)
(* notification delivery with retry (send_telegram_message), the symbol    *)
(* normalisation (patch_symbol) and the entry point (main).                *)
(*                                                                         *)
(* Time is counted in seconds; an instant is day * 86400 + second of day,  *)
(* in IST wall-clock time.  Prices are integers (rupees).  An optional     *)
(* value is the empty tuple (Python None / missing key) or a 1-tuple.      *)
(* A symbol is a tuple of characters.                                      *)
(***************************************************************************)
EXTENDS Integers, Sequences, FiniteSets, TLC

VARIABLES
    store,          \* trade_collection: sequence of trade documents
    now,            \* datetime.now(IST) of the current (or last) invocation
    env_ok,         \* all of TELEGRAM_TOKEN, TELEGRAM_CHAT_ID, MONGODB_URI set
    market,         \* what yf.download answered in this invocation
    pc,             \* position of main / check_trades
    trades,         \* check_trades: the list returned by find(status = OPEN)
    price_data,     \* check_trades: canonical symbol -> day low
    idx,            \* check_trades: position of the loop over trades
    branch,         \* check_trades: the branch of the rule chain being executed
    exc,            \* the exception being handled: [kind, rec]
    log,            \* history: send_telegram_message calls of this invocation
    ulog,           \* history: update_one calls of this invocation
    iterated,       \* history: records whose loop iteration started
    queried,        \* history: find() was called in this invocation
    fetched,        \* history: yf.download was called in this invocation
    client_closed,  \* client.close() was called in this invocation
    outcome,        \* how the last invocation of main ended
    store0,         \* history: the store when this invocation started
    apprToday,      \* history: delivered approaching alerts per record, this day
    entryToday,     \* history: delivered entry-hit alerts per record, this day
    call,           \* a single send_telegram_message call: script and result
    posts,          \* history: HTTP posts made for the record or step in
                    \* progress, where they are counted (SpecRejecting)
    prev,           \* history: what the previous invocation sent and was told
    sym             \* a single symbol, and patch_symbol applied to it

vars == <<store, now, env_ok, market, pc, trades, price_data, idx, branch, exc,
          log, ulog, iterated, queried, fetched, client_closed, outcome, store0,
          apprToday, entryToday, call, posts, prev, sym>>

----------------------------------------------------------------------------
(* Bounds of the model *)

NumTrades == 2
MaxDay == 1
StartWeekday == 4
CountCap == 2
MaxSymbolLen == 4

(* Program constants *)

MaxAttempts == 3
CooldownMinutes == 30
ApproachPercent == 2
FirstWeekendDay == 5
DefaultRetryAfter == 1
IstOffsetMinutes == 330

None == <<>>
Some(v) == <<v>>

DaySeconds == 24 * 3600
TimeOf(h, m, s) == h * 3600 + m * 60 + s
MarketOpen == TimeOf(9, 15, 0)
MarketClose == TimeOf(15, 30, 0)

Date(t) == t \div DaySeconds
TimeOfDay(t) == t % DaySeconds
Weekday(t) == (StartWeekday + Date(t)) % 7
Hour(t) == TimeOfDay(t) \div 3600
Minute(t) == (TimeOfDay(t) % 3600) \div 60

TimesOfDay == { TimeOf(9, 14, 0), TimeOf(9, 15, 0), TimeOf(9, 40, 0),
                TimeOf(9, 45, 0), TimeOf(15, 30, 0), TimeOf(15, 30, 30),
                TimeOf(15, 31, 0) }
Instants == { d * DaySeconds + s : d \in 0..MaxDay, s \in TimesOfDay }

Abs(x) == IF x < 0 THEN -x ELSE x

----------------------------------------------------------------------------
(* Trade documents *)

SymTCS == <<"T", "C", "S">>
SymITBO == <<"I", "T", ".", "B", "O">>
DefaultSuffix == <<".", "N", "S">>

Num(v) == [type |-> "int", val |-> v]
Text == [type |-> "str", val |-> 0]
Absent == [type |-> "none", val |-> 0]

Stamp(t, aware) == [t |-> t, aware |-> aware]

\* What find() returns for a time stamp the program wrote: the store keeps
\* the instant in UTC and the client, created without tz_aware, returns it
\* offset-naive, as UTC wall-clock time.
Stored(t) == Stamp(t - IstOffsetMinutes * 60, FALSE)

Doc(id, symbol, entry_price, status, lat) ==
    [_id |-> id, symbol |-> symbol, entry_price |-> entry_price,
     status |-> status, alert_sent |-> FALSE, entry_alert_sent |-> FALSE,
     last_alert_time |-> lat]

\* The documents a collection may hold when the program first runs; the
\* document at position p has _id p, except where the _id is left out.
InitialDocs(p) ==
    { Doc(Some(p), Some(SymTCS), Num(100), "OPEN", None),
      Doc(Some(p), Some(SymITBO), Num(100), "OPEN", None),
      Doc(Some(p), Some(SymTCS), Num(100), "OPEN",
          Some(Stamp(TimeOf(9, 0, 0), FALSE))),
      Doc(Some(p), None, Num(100), "OPEN", None),
      Doc(None, Some(SymTCS), Num(100), "OPEN", None),
      Doc(Some(p), Some(SymTCS), Text, "OPEN", None),
      Doc(Some(p), Some(SymTCS), Absent, "OPEN", None),
      Doc(Some(p), Some(SymITBO), Num(0), "OPEN", None),
      Doc(Some(p), Some(SymTCS), Num(100), "CLOSED", None) }

Positions == 1..NumTrades

PlainDoc(p) == Doc(Some(p), Some(SymTCS), Num(100), "OPEN", None)

\* The collections the program starts from: at most one document of each
\* collection is not the plain one.
InitialStores ==
    { s \in [Positions -> UNION { InitialDocs(p) : p \in Positions }] :
          /\ \A p \in Positions : s[p] \in InitialDocs(p)
          /\ \E p \in Positions :
                 \A q \in Positions \ { p } : s[q] = PlainDoc(q) }

----------------------------------------------------------------------------
(* patch_symbol *)

\* Mutant of patch_symbol: the suffix is appended to every symbol.
patch_symbol_always(symbol) ==
    symbol \o DefaultSuffix

patch_symbol(symbol) ==
    IF \A i \in DOMAIN symbol : symbol[i] # "."
    THEN symbol \o DefaultSuffix
    ELSE symbol

----------------------------------------------------------------------------
(* send_telegram_message: a script is what the transport answers to the    *)
(* successive posts of one call.                                           *)

Responses == { [status |-> 200, retry_after |-> None],
               [status |-> 500, retry_after |-> None],
               [status |-> 429, retry_after |-> None],
               [status |-> 429, retry_after |-> Some(2)] }
Scripts == [1..MaxAttempts -> Responses]

\* The scripts tried for each call made by main and check_trades: delivered
\* at once, delivered at the last attempt, refused, rate-limited throughout.
Ok == [status |-> 200, retry_after |-> None]
Refused == [status |-> 500, retry_after |-> None]
Limited == [status |-> 429, retry_after |-> None]
RunScripts == { [i \in 1..MaxAttempts |-> Ok],
                [i \in 1..MaxAttempts |-> IF i < MaxAttempts THEN Limited ELSE Ok],
                [i \in 1..MaxAttempts |-> Refused],
                [i \in 1..MaxAttempts |-> Limited] }

RetryAfter(resp) ==
    IF resp.retry_after = None THEN DefaultRetryAfter ELSE resp.retry_after[1]

\* Mutant of Post: the loop ends without raising.
RECURSIVE PostNoFinalRaise(_, _, _)
PostNoFinalRaise(script, attempt, slept) ==
    IF attempt > MaxAttempts
    THEN [raised |-> FALSE, attempts |-> MaxAttempts, slept |-> slept]
    ELSE LET resp == script[attempt]
         IN  IF resp.status = 429
             THEN PostNoFinalRaise(script, attempt + 1, slept + RetryAfter(resp))
             ELSE IF resp.status # 200
                  THEN [raised |-> TRUE, attempts |-> attempt, slept |-> slept]
                  ELSE [raised |-> FALSE, attempts |-> attempt, slept |-> slept]

RECURSIVE Post(_, _, _)
Post(script, attempt, slept) ==
    IF attempt > MaxAttempts
    THEN [raised |-> TRUE, attempts |-> MaxAttempts, slept |-> slept]
    ELSE LET resp == script[attempt]
         IN  IF resp.status = 429
             THEN Post(script, attempt + 1, slept + RetryAfter(resp))
             ELSE IF resp.status # 200
                  THEN [raised |-> TRUE, attempts |-> attempt, slept |-> slept]
                  ELSE [raised |-> FALSE, attempts |-> attempt, slept |-> slept]

send_telegram_message(script) == Post(script, 1, 0)

----------------------------------------------------------------------------
(* check_trades: the pure parts *)

\* Mutant of GateClosed: Saturday counts as a trading day.
GateClosedSundayOnly(t) ==
    \/ Weekday(t) > FirstWeekendDay
    \/ TimeOfDay(t) < MarketOpen
    \/ TimeOfDay(t) > MarketClose

GateClosed(t) ==
    \/ Weekday(t) >= FirstWeekendDay
    \/ TimeOfDay(t) < MarketOpen
    \/ TimeOfDay(t) > MarketClose

\* find({"status": "OPEN"}): the matching documents, in collection order,
\* each with the position it has in the collection.
RECURSIVE FindOpen(_, _)
FindOpen(coll, p) ==
    IF p > Len(coll) THEN <<>>
    ELSE IF coll[p].status = "OPEN"
         THEN <<[pos |-> p, doc |-> coll[p]]>> \o FindOpen(coll, p + 1)
         ELSE FindOpen(coll, p + 1)

\* trade["symbol"] raises KeyError when the key is missing, and
\* patch_symbol(None) raises TypeError.
SymbolRaises(found) ==
    \E i \in 1..Len(found) : found[i].doc.symbol = None

FirstSymbolRaising(found) ==
    found[CHOOSE i \in 1..Len(found) :
              /\ found[i].doc.symbol = None
              /\ \A j \in 1..(i - 1) : found[j].doc.symbol # None].pos

Tickers(found) ==
    { patch_symbol(found[i].doc.symbol[1]) : i \in 1..Len(found) }

\* The download's answer for one ticker: None when the frame is empty or
\* the ticker is not in the answer.
Quote(mkt, ticker) ==
    IF ticker \in DOMAIN mkt.low THEN mkt.low[ticker] ELSE None

PriceData(mkt, tickers) ==
    [t \in { u \in tickers : Quote(mkt, u) # None } |-> Quote(mkt, t)[1]]

\* not all([raw_symbol, trade_id, isinstance(entry_price, (int, float))])
InvalidData(doc) ==
    \/ doc.symbol = None
    \/ doc.symbol = Some(<<>>)
    \/ doc._id = None
    \/ doc.entry_price.type # "int"

\* price_data.get(symbol)
DayLow(prices, doc) ==
    LET symbol == patch_symbol(doc.symbol[1])
    IN  IF symbol \in DOMAIN prices THEN Some(prices[symbol]) ELSE None

\* IST.localize(last_alert_time) for an offset-naive time stamp
Localize(stamp) ==
    IF stamp.aware THEN stamp ELSE Stamp(stamp.t, TRUE)

InCooldown(doc, t) ==
    /\ doc.last_alert_time # None
    /\ t - Localize(doc.last_alert_time[1]).t < CooldownMinutes * 60

\* 0 < abs(entry_price - day_low) / entry_price <= 0.02.  day_low is a
\* numpy.float64: divided by an entry_price of 0 it gives inf or nan and
\* raises nothing, and the comparison is false.
Approaching(entry_price, day_low) ==
    IF entry_price > 0
    THEN /\ Abs(entry_price - day_low) > 0
         /\ 100 * Abs(entry_price - day_low) <= ApproachPercent * entry_price
    ELSE FALSE

AfterClose(t) == Hour(t) > 15 \/ (Hour(t) = 15 /\ Minute(t) >= 30)

\* Mutant of Branch: the entry-hit rule is tried before the approaching rule.
BranchEntryFirst(doc, day_low, t) ==
    LET entry_price == doc.entry_price.val
    IN  IF ~doc.entry_alert_sent /\ day_low <= entry_price THEN "entry"
        ELSE IF ~doc.alert_sent /\ Approaching(entry_price, day_low)
             THEN "approaching"
        ELSE IF doc.alert_sent /\ ~doc.entry_alert_sent /\ AfterClose(t)
             THEN "reset"
        ELSE "none"

\* Mutant of Branch: the reset rule does not look at entry_alert_sent.
BranchResetAfterEntry(doc, day_low, t) ==
    LET entry_price == doc.entry_price.val
    IN  IF ~doc.alert_sent /\ Approaching(entry_price, day_low)
        THEN "approaching"
        ELSE IF ~doc.entry_alert_sent /\ day_low <= entry_price THEN "entry"
        ELSE IF doc.alert_sent /\ AfterClose(t) THEN "reset"
        ELSE "none"

\* The rule chain of one record: the first branch that applies.
Branch(doc, day_low, t) ==
    LET entry_price == doc.entry_price.val
    IN  IF ~doc.alert_sent /\ Approaching(entry_price, day_low)
        THEN "approaching"
        ELSE IF ~doc.entry_alert_sent /\ day_low <= entry_price THEN "entry"
        ELSE IF doc.alert_sent /\ ~doc.entry_alert_sent /\ AfterClose(t)
             THEN "reset"
        ELSE "none"

\* Mutant of Patch: the approaching update sets both flags.
PatchBothFlags(doc, br, t) ==
    CASE br = "approaching" ->
            [doc EXCEPT !.alert_sent = TRUE,
                        !.entry_alert_sent = TRUE,
                        !.last_alert_time = Some(Stored(t))]
      [] br = "entry" ->
            [doc EXCEPT !.entry_alert_sent = TRUE,
                        !.last_alert_time = Some(Stored(t))]
      [] br = "reset" ->
            [doc EXCEPT !.alert_sent = FALSE,
                        !.last_alert_time = Some(Stored(t))]

\* The $set document of each branch's update_one.
Patch(doc, br, t) ==
    CASE br = "approaching" ->
            [doc EXCEPT !.alert_sent = TRUE,
                        !.last_alert_time = Some(Stored(t))]
      [] br = "entry" ->
            [doc EXCEPT !.entry_alert_sent = TRUE,
                        !.last_alert_time = Some(Stored(t))]
      [] br = "reset" ->
            [doc EXCEPT !.alert_sent = FALSE,
                        !.last_alert_time = Some(Stored(t))]

\* Mutant of update_one: the filter matches no document.
update_one_no_match(coll, id, br, t) ==
    coll

\* update_one({"_id": trade_id}, {"$set": ...}): the first document with
\* that _id is updated.
update_one(coll, id, br, t) ==
    IF \E p \in 1..Len(coll) : coll[p]._id = Some(id)
    THEN LET p == CHOOSE q \in 1..Len(coll) :
                      /\ coll[q]._id = Some(id)
                      /\ \A r \in 1..(q - 1) : coll[r]._id # Some(id)
         IN  [coll EXCEPT ![p] = Patch(coll[p], br, t)]
    ELSE coll

----------------------------------------------------------------------------
(* The environment of one invocation *)

\* What yf.download may answer when asked for a set of tickers: it gives
\* each ticker a day low or no data, or the try of lines 79-90 raises, in
\* the download or while the answer is read, after the day lows of some
\* but not all tickers were stored (the tickers are read in the order of a
\* set, that is, in any order).
Lows == { 97, 98, 100, 102 }
Markets(tickers) ==
    { [fails |-> TRUE, low |-> f] :
          f \in UNION { [done -> { Some(l) : l \in Lows }] :
                           done \in (SUBSET tickers) \ { tickers } } } \cup
    { [fails |-> FALSE, low |-> f] :
          f \in [tickers -> { None } \cup { Some(l) : l \in Lows }] }

NoMarket == [fails |-> FALSE, low |-> <<>>]
NoExc == [kind |-> "none", rec |-> 0]
NoPrev == [ran |-> FALSE, time |-> 0, sent |-> {}, market |-> NoMarket]
NoSym == [arg |-> None, once |-> None, twice |-> None]
Bump(n) == IF n < CountCap THEN n + 1 ELSE CountCap

----------------------------------------------------------------------------
(* The state machine *)

\* The count of posts after one more call, and at the start of a record or
\* step; None where posts are not counted.
MorePosts(script) ==
    IF posts = None THEN None
    ELSE Some(posts[1] + send_telegram_message(script).attempts)

NoPosts == IF posts = None THEN None ELSE Some(0)

\* Nothing of an invocation is in progress.
Quiet ==
    /\ now = 0
    /\ env_ok = TRUE
    /\ market = NoMarket
    /\ pc = "idle"
    /\ trades = <<>>
    /\ price_data = <<>>
    /\ idx = 0
    /\ branch = "none"
    /\ exc = NoExc
    /\ log = <<>>
    /\ ulog = <<>>
    /\ iterated = {}
    /\ queried = FALSE
    /\ fetched = FALSE
    /\ client_closed = FALSE
    /\ outcome = "none"
    /\ prev = NoPrev
    /\ apprToday = [p \in Positions |-> 0]
    /\ entryToday = [p \in Positions |-> 0]

Init ==
    /\ store \in InitialStores
    /\ store0 = store
    /\ Quiet
    /\ call = [script |-> None, result |-> None]
    /\ posts = None
    /\ sym = NoSym

\* The finally clause of main, reached by return or by an exception that
\* main's handler does not catch.
Finally(how) ==
    /\ client_closed' = TRUE
    /\ outcome' = how
    /\ pc' = "done"

\* The end of one loop iteration: the next record, or the return.
NextRecord ==
    IF idx < Len(trades)
    THEN /\ idx' = idx + 1
         /\ pc' = "loop"
         /\ UNCHANGED <<client_closed, outcome>>
    ELSE /\ idx' = idx
         /\ Finally("returned")

\* An exception raised inside check_trades and caught by nobody there.
Propagate(kind, rec) ==
    /\ exc' = [kind |-> kind, rec |-> rec]
    /\ pc' = "main_except"

\* main, lines 159-169, and the market-hours gate of check_trades: no
\* suspension point lies between them.
MainStart(t, e) ==
    /\ pc = "idle"
    /\ t > now
    /\ now' = t
    /\ env_ok' = e
    /\ market' = NoMarket
    /\ store0' = store
    /\ trades' = <<>>
    /\ price_data' = <<>>
    /\ idx' = 0
    /\ branch' = "none"
    /\ exc' = NoExc
    /\ log' = <<>>
    /\ ulog' = <<>>
    /\ iterated' = {}
    /\ queried' = FALSE
    /\ fetched' = FALSE
    /\ apprToday' = IF Date(t) = Date(now) THEN apprToday
                    ELSE [p \in Positions |-> 0]
    /\ entryToday' = IF Date(t) = Date(now) THEN entryToday
                     ELSE [p \in Positions |-> 0]
    /\ IF ~e
       THEN /\ pc' = "config_error"
            /\ client_closed' = FALSE
            /\ outcome' = "running"
       ELSE IF GateClosed(t)
            THEN Finally("exit0")
            ELSE /\ pc' = "find"
                 /\ client_closed' = FALSE
                 /\ outcome' = "running"
    /\ UNCHANGED <<store, call, posts, prev, sym>>

\* main, lines 161-165: the report of the missing configuration, then exit(1)
ConfigError(script) ==
    /\ pc = "config_error"
    /\ posts' = MorePosts(script)
    /\ LET r == send_telegram_message(script)
       IN  /\ log' = Append(log, [kind |-> "config_error", rec |-> 0,
                                  ok |-> ~r.raised, about |-> "none"])
           /\ outcome' = IF r.raised THEN "raised" ELSE "exit1"
    /\ pc' = "done"
    /\ UNCHANGED <<store, now, env_ok, market, trades, price_data, idx, branch,
                   exc, ulog, iterated, queried, fetched, client_closed, store0,
                   apprToday, entryToday, call, prev, sym>>

\* check_trades, lines 63-74: the query and the unique symbols
FindTrades(ok) ==
    /\ pc = "find"
    /\ queried' = TRUE
    /\ IF ~ok
       THEN /\ Propagate("store", 0)
            /\ UNCHANGED <<trades, idx, client_closed, outcome>>
       ELSE LET found == FindOpen(store, 1)
            IN  /\ trades' = found
                /\ IF found = <<>>
                   THEN /\ Finally("returned")
                        /\ UNCHANGED <<exc, idx>>
                   ELSE IF SymbolRaises(found)
                        THEN /\ Propagate("symbol", FirstSymbolRaising(found))
                             /\ UNCHANGED <<idx, client_closed, outcome>>
                        ELSE /\ pc' = "fetch"
                             /\ UNCHANGED <<exc, idx, client_closed, outcome>>
    /\ UNCHANGED <<store, now, env_ok, market, price_data, branch, log, ulog,
                   iterated, fetched, store0, apprToday, entryToday, call, posts,
                   prev, sym>>

\* check_trades, lines 76-89: the batched download
FetchPrices ==
    /\ pc = "fetch"
    /\ fetched' = TRUE
    /\ \E m \in Markets(Tickers(trades)) :
          /\ market' = m
          /\ IF m.fails
             THEN /\ price_data' = PriceData(m, Tickers(trades))
                  /\ pc' = "fetch_notify"
                  /\ idx' = idx
             ELSE /\ price_data' = PriceData(m, Tickers(trades))
                  /\ pc' = "loop"
                  /\ idx' = 1
    /\ UNCHANGED <<store, now, env_ok, trades, branch, exc, log, ulog,
                   iterated, queried, client_closed, outcome, store0,
                   apprToday, entryToday, call, posts, prev, sym>>

\* check_trades, line 90: the report of the failed download
FetchNotify(script) ==
    /\ pc = "fetch_notify"
    /\ posts' = IF send_telegram_message(script).raised
                 THEN MorePosts(script)
                 ELSE NoPosts
    /\ LET r == send_telegram_message(script)
       IN  /\ log' = Append(log, [kind |-> "fetch_error", rec |-> 0,
                                  ok |-> ~r.raised, about |-> "fetch"])
           /\ IF r.raised
              THEN /\ Propagate("delivery", 0)
                   /\ idx' = idx
              ELSE /\ pc' = "loop"
                   /\ idx' = 1
                   /\ exc' = exc
    /\ UNCHANGED <<store, now, env_ok, market, trades, price_data, branch, ulog,
                   iterated, queried, fetched, client_closed, outcome, store0,
                   apprToday, entryToday, call, prev, sym>>

\* check_trades, lines 94-128, 138, 148: one record up to the branch taken
Evaluate ==
    /\ pc = "loop"
    /\ posts' = NoPosts
    /\ LET trade == trades[idx]
           doc == trade.doc
       IN  /\ iterated' = iterated \cup { trade.pos }
           /\ IF InvalidData(doc) \/ DayLow(price_data, doc) = None
                 \/ InCooldown(doc, now)
              THEN /\ NextRecord
                   /\ UNCHANGED <<branch, exc>>
              ELSE LET br == Branch(doc, DayLow(price_data, doc)[1], now)
                   IN  /\ branch' = br
                       /\ IF br \in { "approaching", "entry" }
                          THEN /\ pc' = "send"
                               /\ UNCHANGED <<idx, exc, client_closed, outcome>>
                          ELSE IF br = "reset"
                               THEN /\ pc' = "update"
                                    /\ UNCHANGED <<idx, exc, client_closed, outcome>>
                          ELSE /\ NextRecord
                               /\ exc' = exc
    /\ UNCHANGED <<store, now, env_ok, market, trades, price_data, log, ulog,
                   queried, fetched, store0, apprToday, entryToday, call, prev,
                   sym>>

\* Mutant of AlertSendRaised: the failure is ignored, the update follows.
AlertSendIgnored(pos) ==
    /\ exc' = exc
    /\ pc' = "update"

\* Where the failure of an alert's delivery goes: the record's handler.
AlertSendRaised(pos) ==
    /\ exc' = [kind |-> "delivery", rec |-> pos]
    /\ pc' = "rec_except"

\* check_trades, lines 130 and 140: the alert of the branch taken
SendAlert(script) ==
    /\ pc = "send"
    /\ posts' = MorePosts(script)
    /\ LET r == send_telegram_message(script)
           pos == trades[idx].pos
       IN  /\ log' = Append(log, [kind |-> branch, rec |-> pos,
                                  ok |-> ~r.raised, about |-> "none"])
           /\ apprToday' = IF branch = "approaching" /\ ~r.raised
                           THEN [apprToday EXCEPT ![pos] = Bump(@)]
                           ELSE apprToday
           /\ entryToday' = IF branch = "entry" /\ ~r.raised
                            THEN [entryToday EXCEPT ![pos] = Bump(@)]
                            ELSE entryToday
           /\ IF r.raised
              THEN AlertSendRaised(pos)
              ELSE /\ pc' = "update"
                   /\ exc' = exc
    /\ UNCHANGED <<store, now, env_ok, market, trades, price_data, idx, branch,
                   ulog, iterated, queried, fetched, client_closed, outcome,
                   store0, call, prev, sym>>

\* check_trades, lines 131-134, 141-144, 149-152: the update of the record
UpdateOne(ok) ==
    /\ pc = "update"
    /\ posts' = IF ok THEN NoPosts ELSE posts
    /\ LET trade == trades[idx]
       IN  /\ ulog' = Append(ulog, [rec |-> trade.pos, set |-> branch, ok |-> ok])
           /\ IF ok
              THEN /\ store' = update_one(store, trade.doc._id[1], branch, now)
                   /\ NextRecord
                   /\ exc' = exc
              ELSE /\ store' = store
                   /\ exc' = [kind |-> "store", rec |-> trade.pos]
                   /\ pc' = "rec_except"
                   /\ UNCHANGED <<idx, client_closed, outcome>>
    /\ UNCHANGED <<now, env_ok, market, trades, price_data, branch, log,
                   iterated, queried, fetched, store0, apprToday, entryToday,
                   call, prev, sym>>

\* Mutant of ReportRaised: the failure of the report is handled by the same
\* handler, which reports it in turn.
ReportRetried(pos) ==
    /\ exc' = [kind |-> "delivery", rec |-> pos]
    /\ pc' = "rec_except"
    /\ UNCHANGED <<idx, client_closed, outcome>>

\* Where the failure of the record handler's own report goes: out of
\* check_trades, to main.
ReportRaised(pos) ==
    /\ Propagate("delivery", pos)
    /\ UNCHANGED <<idx, client_closed, outcome>>

\* check_trades, lines 155-157: the handler of a record's exception
RecordExcept(script) ==
    /\ pc = "rec_except"
    /\ posts' = IF send_telegram_message(script).raised
                 THEN MorePosts(script)
                 ELSE NoPosts
    /\ LET r == send_telegram_message(script)
           pos == trades[idx].pos
       IN  /\ log' = Append(log, [kind |-> "rec_error", rec |-> pos,
                                  ok |-> ~r.raised, about |-> exc.kind])
           /\ IF r.raised
              THEN ReportRaised(pos)
              ELSE /\ NextRecord
                   /\ exc' = NoExc
    /\ UNCHANGED <<store, now, env_ok, market, trades, price_data, branch, ulog,
                   iterated, queried, fetched, store0, apprToday, entryToday,
                   call, prev, sym>>

\* main, lines 170-177: the handler of an exception of check_trades and the
\* finally clause
MainExcept(script) ==
    /\ pc = "main_except"
    /\ posts' = MorePosts(script)
    /\ LET r == send_telegram_message(script)
       IN  /\ log' = Append(log, [kind |-> "main_error", rec |-> exc.rec,
                                  ok |-> ~r.raised, about |-> exc.kind])
           /\ Finally(IF r.raised THEN "raised" ELSE "returned")
    /\ UNCHANGED <<store, now, env_ok, market, trades, price_data, idx, branch,
                   exc, ulog, iterated, queried, fetched, store0, apprToday,
                   entryToday, call, prev, sym>>

\* The process ends; the next invocation is a new process.
ExitFrame ==
    /\ pc = "done"
    /\ pc' = "idle"
    /\ env_ok' = TRUE
    /\ market' = NoMarket
    /\ store0' = store
    /\ trades' = <<>>
    /\ price_data' = <<>>
    /\ idx' = 0
    /\ branch' = "none"
    /\ exc' = NoExc
    /\ log' = <<>>
    /\ ulog' = <<>>
    /\ iterated' = {}
    /\ queried' = FALSE
    /\ fetched' = FALSE
    /\ client_closed' = FALSE
    /\ outcome' = "none"
    /\ posts' = NoPosts
    /\ UNCHANGED <<store, now, apprToday, entryToday, call, sym>>

ProcessExit ==
    /\ ExitFrame
    /\ UNCHANGED prev

Next ==
    \/ \E t \in Instants, e \in BOOLEAN : MainStart(t, e)
    \/ \E script \in RunScripts : ConfigError(script)
    \/ \E ok \in BOOLEAN : FindTrades(ok)
    \/ FetchPrices
    \/ \E script \in RunScripts : FetchNotify(script)
    \/ Evaluate
    \/ \E script \in RunScripts : SendAlert(script)
    \/ \E ok \in BOOLEAN : UpdateOne(ok)
    \/ \E script \in RunScripts : RecordExcept(script)
    \/ \E script \in RunScripts : MainExcept(script)
    \/ ProcessExit

Spec == Init /\ [][Next]_vars

----------------------------------------------------------------------------
(* One call of send_telegram_message on its own: the transport's script    *)
(* is drawn from every script, the call is applied to it.                  *)

InitSend ==
    /\ store = [p \in Positions |-> PlainDoc(p)]
    /\ store0 = store
    /\ Quiet
    /\ call \in { [script |-> Some(s), result |-> None] : s \in Scripts }
    /\ posts = None
    /\ sym = NoSym

CallSend ==
    /\ call.script # None
    /\ call.result = None
    /\ call' = [call EXCEPT !.result = Some(send_telegram_message(call.script[1]))]
    /\ UNCHANGED <<store, now, env_ok, market, pc, trades, price_data, idx,
                   branch, exc, log, ulog, iterated, queried, fetched,
                   client_closed, outcome, store0, apprToday, entryToday,
                   posts, prev, sym>>

NextSend == CallSend

SpecSend == InitSend /\ [][NextSend]_vars

----------------------------------------------------------------------------
(* The program with a working transport and a working store: every         *)
(* message is delivered and every store call succeeds.  The exit of an     *)
(* invocation keeps what it sent and what the download answered, for the   *)
(* comparison of two successive invocations.  The record handler of lines  *)
(* 155-157 is not reached: what the try of line 126 can raise is a failed  *)
(* delivery or a failed update.                                            *)

Delivering == { s \in RunScripts : ~send_telegram_message(s).raised }

ProcessExitRecorded ==
    /\ ExitFrame
    /\ prev' = [ran |-> TRUE,
                time |-> now,
                sent |-> { <<log[n].kind, log[n].rec>> :
                              n \in { m \in DOMAIN log : log[m].ok } },
                market |-> market]

NextWorking ==
    \/ \E t \in Instants, e \in BOOLEAN : MainStart(t, e)
    \/ \E script \in Delivering : ConfigError(script)
    \/ FindTrades(TRUE)
    \/ FetchPrices
    \/ \E script \in Delivering : FetchNotify(script)
    \/ Evaluate
    \/ \E script \in Delivering : SendAlert(script)
    \/ UpdateOne(TRUE)
    \/ \E script \in Delivering : MainExcept(script)
    \/ ProcessExitRecorded

SpecWorking == Init /\ [][NextWorking]_vars

----------------------------------------------------------------------------
(* The program with a transport that delivers nothing: no post of any      *)
(* call is answered 200.  Every step that is possible is eventually taken. *)
(* No update_one is reached: the approaching and entry-hit updates follow  *)
(* a delivered alert, and the reset needs the alert_sent that only a       *)
(* delivered alert sets.                                                   *)

Rejecting == { s \in Scripts : \A i \in 1..MaxAttempts : s[i].status # 200 }

InitRejecting ==
    /\ store \in InitialStores
    /\ store0 = store
    /\ Quiet
    /\ call = [script |-> None, result |-> None]
    /\ posts = Some(0)
    /\ sym = NoSym

NextRejecting ==
    \/ \E t \in Instants, e \in BOOLEAN : MainStart(t, e)
    \/ \E script \in Rejecting : ConfigError(script)
    \/ \E ok \in BOOLEAN : FindTrades(ok)
    \/ FetchPrices
    \/ \E script \in Rejecting : FetchNotify(script)
    \/ Evaluate
    \/ \E script \in Rejecting : SendAlert(script)
    \/ \E script \in Rejecting : RecordExcept(script)
    \/ \E script \in Rejecting : MainExcept(script)
    \/ ProcessExit

SpecRejecting ==
    InitRejecting /\ [][NextRejecting]_vars /\ WF_vars(NextRejecting)

----------------------------------------------------------------------------
(* patch_symbol on its own: the symbol is drawn from every string of at    *)
(* most MaxSymbolLen characters, the function is applied to it and then    *)
(* to its own result.                                                      *)

Chars == { "A", ".", "N" }
Symbols == UNION { [1..n -> Chars] : n \in 0..MaxSymbolLen }

InitPatch ==
    /\ store = [p \in Positions |-> PlainDoc(p)]
    /\ store0 = store
    /\ Quiet
    /\ call = [script |-> None, result |-> None]
    /\ posts = None
    /\ sym \in { [arg |-> Some(symbol), once |-> None, twice |-> None] :
                    symbol \in Symbols }

PatchOnce ==
    /\ sym.arg # None
    /\ sym.once = None
    /\ sym' = [sym EXCEPT !.once = Some(patch_symbol(sym.arg[1]))]
    /\ UNCHANGED <<store, now, env_ok, market, pc, trades, price_data, idx,
                   branch, exc, log, ulog, iterated, queried, fetched,
                   client_closed, outcome, store0, apprToday, entryToday,
                   call, posts, prev>>

PatchTwice ==
    /\ sym.once # None
    /\ sym.twice = None
    /\ sym' = [sym EXCEPT !.twice = Some(patch_symbol(sym.once[1]))]
    /\ UNCHANGED <<store, now, env_ok, market, pc, trades, price_data, idx,
                   branch, exc, log, ulog, iterated, queried, fetched,
                   client_closed, outcome, store0, apprToday, entryToday,
                   call, posts, prev>>

NextPatch == PatchOnce \/ PatchTwice

SpecPatch == InitPatch /\ [][NextPatch]_vars

----------------------------------------------------------------------------
(* What the claims speak of *)

Running == pc # "idle"
Done == pc = "done"

\* send_telegram_message calls made because of the record at position p
CallsFor(p) == { n \in DOMAIN log : log[n].rec = p }
AlertsFor(p) ==
    { n \in DOMAIN log : log[n].rec = p /\ log[n].kind \in { "approaching", "entry" } }
UpdatesFor(p) == { n \in DOMAIN ulog : ulog[n].rec = p }
Untouched(p) == CallsFor(p) = {} /\ UpdatesFor(p) = {} /\ store[p] = store0[p]

WellFormed(doc) ==
    /\ doc.symbol # None
    /\ doc.symbol # Some(<<>>)
    /\ doc._id # None
    /\ doc.entry_price.type = "int"

\* The instant the record's last_alert_time denotes (the store keeps UTC)
\* is less than 30 minutes before the run.
RecentAlert(doc) ==
    /\ doc.last_alert_time # None
    /\ LET instant == doc.last_alert_time[1].t + IstOffsetMinutes * 60
       IN  instant <= now /\ now - instant < 30 * 60

\* The day low fetched in this run for the record's symbol, if any.
LowOf(doc) ==
    LET dotted == \E i \in DOMAIN doc.symbol[1] : doc.symbol[1][i] = "."
        ticker == IF dotted THEN doc.symbol[1] ELSE doc.symbol[1] \o <<".", "N", "S">>
    IN  IF ticker \in DOMAIN price_data THEN Some(price_data[ticker]) ELSE None

----------------------------------------------------------------------------
(* Claims *)

\* C1: within one trading day every record is sent at most one approaching
\* notification and at most one entry-hit notification.
C1_AtMostOncePerDay ==
    \A p \in Positions : apprToday[p] <= 1 /\ entryToday[p] <= 1

\* C2: a run at 15:31 on a weekday over an OPEN record with alert_sent set,
\* entry_alert_sent clear, outside the cooldown, for which no alert rule
\* fires, resets alert_sent and sends no notification.
C2_ResetAt1531 ==
    (Done /\ env_ok /\ Weekday(now) < 5 /\ TimeOfDay(now) = TimeOf(15, 31, 0))
    => \A p \in Positions :
          ( /\ store0[p].status = "OPEN"
            /\ WellFormed(store0[p])
            /\ store0[p].alert_sent
            /\ ~store0[p].entry_alert_sent
            /\ ~InCooldown(store0[p], now)
            /\ AlertsFor(p) = {} )
          => (~store[p].alert_sent /\ log = <<>>)

\* C3: a record whose last alert is less than 30 minutes old gets no
\* notification and no store update from the run, whatever its flags, the
\* prices and the time of day.
C3_CooldownSilences ==
    Running =>
       \A p \in Positions :
          (store0[p].status = "OPEN" /\ RecentAlert(store0[p])) => Untouched(p)

\* C4: a record without symbol, id or numeric entry_price, or without a
\* fetched price, causes no notification and gets no store update.
C4_InvalidSkipped ==
    Running =>
       \A p \in Positions :
          ( /\ store0[p].status = "OPEN"
            /\ \/ ~WellFormed(store0[p])
               \/ (Done /\ p \in iterated /\ LowOf(store0[p]) = None) )
          => Untouched(p)

\* C5: after a record's processing raised, its error is reported with a
\* notification naming the record and every later record of the batch is
\* still evaluated in the same run.
C5_ContinuesAfterError ==
    Done =>
       \A i \in 1..Len(trades) :
          ( \E n \in DOMAIN log :
               /\ log[n].rec = trades[i].pos
               /\ log[n].kind = "rec_error"
               /\ log[n].about \in { "delivery", "store" } )
          => \A j \in (i + 1)..Len(trades) : trades[j].pos \in iterated

\* C6: per record and pass at most one of approaching, entry hit and reset
\* executes: at most one alert and one update; with both flags clear and the
\* day low below the entry price by at most 2%, only the approaching alert is
\* sent and entry_alert_sent stays false.
NearBelow(doc) ==
    /\ LowOf(doc) # None
    /\ LowOf(doc)[1] < doc.entry_price.val
    /\ 100 * (doc.entry_price.val - LowOf(doc)[1]) <= 2 * doc.entry_price.val

FreshNearBelow(p) ==
    /\ store0[p].status = "OPEN"
    /\ WellFormed(store0[p])
    /\ ~store0[p].alert_sent
    /\ ~store0[p].entry_alert_sent
    /\ ~InCooldown(store0[p], now)
    /\ p \in iterated
    /\ NearBelow(store0[p])

C6_PriorityChain ==
    \A p \in Positions :
       /\ Cardinality(AlertsFor(p)) <= 1
       /\ Cardinality(UpdatesFor(p)) <= 1
       /\ \A n \in AlertsFor(p), u \in UpdatesFor(p) : ulog[u].set = log[n].kind
       /\ (Done /\ FreshNearBelow(p)) =>
             /\ \E n \in AlertsFor(p) : log[n].kind = "approaching"
             /\ ~store[p].entry_alert_sent

C6_Witness ==
    /\ Done
    /\ \E p \in Positions :
          /\ FreshNearBelow(p)
          /\ \E n \in AlertsFor(p) : log[n].kind = "approaching" /\ log[n].ok
          /\ store[p].alert_sent
          /\ ~store[p].entry_alert_sent

\* C7: a call makes at most 3 delivery attempts; 429, 429, 200 returns
\* without raising; 429 three times raises.
Statuses(script) == [i \in DOMAIN script |-> script[i].status]

C7_RetryBound ==
    call.result # None =>
       LET r == call.result[1]
           st == Statuses(call.script[1])
       IN  /\ r.attempts \in 1..3
           /\ st = <<429, 429, 200>> => (~r.raised /\ r.attempts = 3)
           /\ st = <<429, 429, 429>> => (r.raised /\ r.attempts = 3)

C7_Witness ==
    /\ call.result # None
    /\ Statuses(call.script[1]) = <<429, 429, 200>>
    /\ ~call.result[1].raised
    /\ call.result[1].attempts = 3

\* C8: an invocation outside the trading window stops at the gate: no store
\* query, no price fetch, no notification, no record update.
OutsideWindow ==
    \/ Weekday(now) \in { 5, 6 }
    \/ TimeOfDay(now) < TimeOf(9, 15, 0)
    \/ TimeOfDay(now) > TimeOf(15, 30, 0)

C8_GateStops ==
    (Running /\ env_ok /\ OutsideWindow) =>
       /\ Done
       /\ outcome = "exit0"
       /\ ~queried
       /\ ~fetched
       /\ log = <<>>
       /\ ulog = <<>>
       /\ store = store0

C8_Witness ==
    /\ Done
    /\ env_ok
    /\ Weekday(now) = 5
    /\ TimeOfDay(now) = TimeOf(9, 40, 0)
    /\ outcome = "exit0"
    /\ \E p \in Positions : store[p].alert_sent /\ ~store[p].entry_alert_sent

\* C9 as stated: main sends no notification about a failed delivery.
C9_MainSilentOnDeliveryFailure ==
    \A n \in DOMAIN log : log[n].kind = "main_error" => log[n].about # "delivery"

\* A run where C9's case happens: an alert fails, the report of the record's
\* handler fails in turn and reaches main, which sends one more notification
\* about the failed delivery.
C9_Witness ==
    /\ Done
    /\ outcome = "raised"
    /\ Len(log) = 3
    /\ log[1].kind = "approaching" /\ ~log[1].ok
    /\ log[2].kind = "rec_error" /\ ~log[2].ok
    /\ log[3].kind = "main_error" /\ ~log[3].ok /\ log[3].about = "delivery"

\* C10: when the download fails as a whole, the run reports it with one
\* notification, still iterates every record, sends no alert and updates
\* nothing.
C10_FetchFailureProceeds ==
    (Done /\ market.fails /\ price_data = <<>>) =>
       /\ Cardinality({ n \in DOMAIN log : log[n].kind = "fetch_error" }) = 1
       /\ \A i \in 1..Len(trades) : trades[i].pos \in iterated
       /\ \A p \in Positions : AlertsFor(p) = {}
       /\ ulog = <<>>

\* C11: on every path by which an invocation of main ends (return, gate
\* exit, error in check_trades, failed error notification, missing
\* configuration) client.close() has been called.
C11_ClientClosed ==
    Done => client_closed

\* This invocation follows the previous one by less than 30 minutes and the
\* download answered the same as it did then.
Successive ==
    /\ Running
    /\ prev.ran
    /\ now - prev.time < CooldownMinutes * 60
    /\ fetched
    /\ market = prev.market

\* C12: of two invocations in immediate succession, with
\* unchanged price data and a working transport and store, the second
\* delivers no notification about a record that the first already
\* delivered about that record.
C12_NoRepeatedNotification ==
    Successive =>
       \A n \in DOMAIN log :
          (log[n].ok /\ log[n].rec \in Positions) =>
             <<log[n].kind, log[n].rec>> \notin prev.sent

C12_Witness ==
    /\ Successive
    /\ Done
    /\ \E p \in Positions :
          /\ p \in iterated
          /\ <<"approaching", p>> \in prev.sent
          /\ LowOf(store[p]) # None
          /\ LowOf(store[p])[1] <= store[p].entry_price.val

HasDot(symbol) == \E i \in DOMAIN symbol : symbol[i] = "."

\* C13: patch_symbol appends ".NS" once to a symbol without a "." and
\* returns a symbol with a "." as it is; applied to its own result it
\* changes nothing.
C13_PatchIdempotent ==
    /\ sym.once # None =>
          /\ ~HasDot(sym.arg[1]) => sym.once[1] = sym.arg[1] \o <<".", "N", "S">>
          /\ HasDot(sym.arg[1]) => sym.once = sym.arg
    /\ sym.twice # None => sym.twice = sym.once

C13_Witness ==
    /\ sym.arg = Some(<<"A", "N">>)
    /\ sym.once = Some(<<"A", "N", ".", "N", "S">>)
    /\ sym.twice # None

\* C14: an approaching or entry-hit update is made only after its
\* notification was delivered, and a record whose alert failed to be
\* delivered keeps its alert_sent, entry_alert_sent and last_alert_time of
\* the start of the run.
C14_FlagOnlyAfterDelivery ==
    /\ \A n \in DOMAIN ulog :
          ulog[n].set \in { "approaching", "entry" } =>
             \E m \in AlertsFor(ulog[n].rec) :
                log[m].kind = ulog[n].set /\ log[m].ok
    /\ \A p \in Positions :
          (\E n \in AlertsFor(p) : ~log[n].ok) =>
             /\ store[p].alert_sent = store0[p].alert_sent
             /\ store[p].entry_alert_sent = store0[p].entry_alert_sent
             /\ store[p].last_alert_time = store0[p].last_alert_time

C14_Witness ==
    /\ Done
    /\ store # store0
    /\ \E p \in Positions : \E n \in AlertsFor(p) : ~log[n].ok

\* C15: with a transport that rejects every post, every invocation of main
\* ends; the calls of send_telegram_message made for one record or step
\* are at most 3 and their posts at most 9.
C15_TerminatesWithBoundedReports ==
    /\ [](/\ posts[1] <= 9
          /\ \A p \in Positions \cup { 0 } : Cardinality(CallsFor(p)) <= 3)
    /\ (Running ~> Done)

C15_Witness ==
    /\ Done
    /\ posts = Some(9)
    /\ \E p \in Positions :
          /\ Cardinality(CallsFor(p)) = 3
          /\ \A n \in CallsFor(p) : ~log[n].ok

\* C16 as stated: a record whose entry_alert_sent is true when an
\* invocation starts is sent no approaching notification by it.
C16_NoApproachingAfterEntry ==
    \A p \in Positions :
       store0[p].entry_alert_sent =>
          \A n \in AlertsFor(p) : log[n].kind # "approaching"

\* C16, amended: a record whose entry_alert_sent and alert_sent are both
\* true when an invocation starts is sent no alert by it and keeps both
\* flags.
C16_SettledRecordStaysSilent ==
    \A p \in Positions :
       (store0[p].entry_alert_sent /\ store0[p].alert_sent) =>
          /\ AlertsFor(p) = {}
          /\ store[p].alert_sent
          /\ store[p].entry_alert_sent

C16_Witness ==
    /\ Done
    /\ \E p \in Positions :
          /\ store0[p].entry_alert_sent
          /\ store0[p].alert_sent
          /\ p \in iterated
          /\ ~InCooldown(store0[p], now)
          /\ LowOf(store0[p]) = Some(98)

\* Every transport and store call of the invocation succeeded.
Working ==
    /\ \A n \in DOMAIN log : log[n].ok
    /\ \A n \in DOMAIN ulog : ulog[n].ok
    /\ exc.kind \notin { "store", "delivery" }

\* The record at position p is valid and OPEN, its entry alert is not yet
\* sent, it is out of the cooldown, and whenever this invocation downloads
\* prices its day low is at or below its entry price.
EntryDue(p) ==
    LET doc == store0[p]
    IN  /\ WellFormed(doc)
        /\ doc.status = "OPEN"
        /\ ~doc.entry_alert_sent
        /\ ~InCooldown(doc, now)
        /\ fetched => /\ LowOf(doc) # None
                      /\ LowOf(doc)[1] <= doc.entry_price.val

\* The invocation delivered the record's entry-hit alert and set
\* entry_alert_sent, or delivered its approaching alert and set alert_sent.
EntryProgress(p) ==
    \/ /\ \E n \in AlertsFor(p) : log[n].kind = "entry" /\ log[n].ok
       /\ store[p].entry_alert_sent
    \/ /\ \E n \in AlertsFor(p) : log[n].kind = "approaching" /\ log[n].ok
       /\ ~store0[p].alert_sent
       /\ store[p].alert_sent

\* C17: an invocation within market hours whose transport and store calls
\* succeed brings every valid OPEN record whose day low is at or below its
\* entry price one step nearer to its entry-hit alert: it sends that alert,
\* or it sends the approaching alert that alone can precede it; so the
\* entry-hit alert is sent after at most two such invocations.
C17_EntryHitProgress ==
    \A p \in Positions :
       (Done /\ env_ok /\ ~GateClosed(now) /\ Working /\ EntryDue(p)) =>
          EntryProgress(p)

\* What one step may do to the store.
WriteFrame ==
    \A p \in Positions :
       LET old == store[p]
           new == store'[p]
       IN  /\ new._id = old._id
           /\ new.symbol = old.symbol
           /\ new.entry_price = old.entry_price
           /\ new.status = old.status
           /\ old.entry_alert_sent => new.entry_alert_sent
           /\ new # old =>
                 /\ pc = "update"
                 /\ p = trades[idx].pos
                 /\ \A q \in Positions \ { p } : store'[q] = store[q]
                 /\ new.last_alert_time = Some(Stored(now))
                 /\ branch = "approaching" =>
                       /\ new.alert_sent
                       /\ new.entry_alert_sent = old.entry_alert_sent
                 /\ branch = "entry" =>
                       /\ new.entry_alert_sent
                       /\ new.alert_sent = old.alert_sent
                 /\ branch = "reset" =>
                       /\ ~new.alert_sent
                       /\ new.entry_alert_sent = old.entry_alert_sent

\* C18: a step changes the store only by one update_one, on the record
\* being processed: approaching sets alert_sent and last_alert_time, entry
\* hit sets entry_alert_sent and last_alert_time, reset clears alert_sent
\* and sets last_alert_time; _id, symbol, entry_price and status and every
\* other record stay as they are, and entry_alert_sent never goes from true
\* to false.
C18_FieldSetOnOneRecord == [][WriteFrame]_vars

C18_Witness ==
    /\ \E n \in DOMAIN ulog : ulog[n].ok /\ ulog[n].set = "approaching"
    /\ \E n \in DOMAIN ulog : ulog[n].ok /\ ulog[n].set = "entry"
    /\ store # store0

====
